---- MODULE Spec2Model ----
(***************************************************************************)
(* Cosmic Quota: the session analytics engine (AnalyticsEngine, in         *)
(* src/monitor/sessionTracker.ts) and the hosts that drive it.             *)
(*                                                                         *)
(* JavaScript numbers are modelled as exact rationals <<n, d>> with d > 0  *)
(* in lowest terms; null is the empty tuple.  Timestamps are milliseconds  *)
(* since the epoch, as Date.now() and Date.getTime() return them; a        *)
(* renewsAt field holds the instant its ISO string denotes.                *)
(***************************************************************************)
EXTENDS Integers, Sequences, FiniteSets, TLC

VARIABLES
    sessionTracker,   \* AnalyticsEngine.sessionTracker: Null or <<SessionTracker>>
    clock,            \* the wall clock, what Date.now() returns
    call,             \* the last step: the engine method called and its arguments
    ret,              \* what that call returned
    seed,             \* history variable: the last initialize() call; cleared is the
                      \* history length that a call with tracking off removed
    log,              \* history variable: every entry recorded since seeding
    legacy,           \* the fields of the single-file QuotaMonitor (src/extension.ts)
    settings,         \* the syntheticQuota.* configuration
    statusBar,        \* what the single-file QuotaMonitor shows in the status bar
    monitor           \* the modular QuotaMonitor with its QuotaService and engine,
                      \* the configuration it reads and its refresh timer

engineVars == <<sessionTracker, call, ret, seed, log>>

legacyVars == <<legacy, settings, statusBar>>

vars ==
    <<sessionTracker, clock, call, ret, seed, log, legacy, settings, statusBar, monitor>>

(***************************************************************************)
(* Numbers                                                                 *)
(***************************************************************************)
Null == <<>>

Some(x) == <<x>>

Abs(n) == IF n < 0 THEN -n ELSE n

RECURSIVE GCD(_, _)
GCD(a, b) == IF b = 0 THEN a ELSE GCD(b, a % b)

\* n / d in lowest terms with a positive denominator; as in JavaScript a
\* division by 0 gives Infinity <<1, 0>>, -Infinity <<-1, 0>> or NaN <<0, 0>>
Rat(n, d) ==
    LET s == IF d < 0 THEN -1 ELSE 1
        g == IF n = 0 /\ d = 0 THEN 1 ELSE GCD(Abs(n), Abs(d))
    IN  <<(s * n) \div g, (s * d) \div g>>

\* Number.isFinite
IsFinite(a) == a[2] # 0

Num(n) == <<n, 1>>

Zero == Num(0)

RAdd(a, b) == Rat(a[1] * b[2] + b[1] * a[2], a[2] * b[2])

RSub(a, b) == Rat(a[1] * b[2] - b[1] * a[2], a[2] * b[2])

RMul(a, b) == Rat(a[1] * b[1], a[2] * b[2])

RDiv(a, b) == Rat(a[1] * b[2], a[2] * b[1])

RLt(a, b) == a[1] * b[2] < b[1] * a[2]

RLe(a, b) == a[1] * b[2] <= b[1] * a[2]

RMax(a, b) == IF RLt(a, b) THEN b ELSE a

RMin(a, b) == IF RLt(b, a) THEN b ELSE a

\* Math.max and Math.min on integers
Max(a, b) == IF a < b THEN b ELSE a

Min(a, b) == IF a < b THEN a ELSE b

\* Math.round: the nearest integer, a half rounded towards +infinity; Infinity
\* and NaN are returned as they are
MathRound(a) == IF IsFinite(a) THEN Num((2 * a[1] + a[2]) \div (2 * a[2])) ELSE a

(***************************************************************************)
(* Program constants                                                       *)
(***************************************************************************)
MS_PER_HOUR == 3600000

cycleHours == 5

MaxHistoryLength == 10

(***************************************************************************)
(* Bounds of the model                                                     *)
(***************************************************************************)
\* how many times the clock advances
MaxTicks == 2

\* how many entries are recorded after seeding while analytics are queried
MaxUpdates == 2

\* how many entries one session records in the history-capacity runs
MaxLog == 12

\* how many times the clock advances in the history-capacity runs
MaxLogTicks == 1

\* how many fetches the single-file QuotaMonitor starts
MaxFetches == 3

\* how many configuration changes the single-file QuotaMonitor sees
MaxConfigChanges == 2

\* how many times the clock advances in the trend runs
MaxTrendTicks == 2

\* how many entries one session records in the trend runs
MaxTrendLog == 4

\* how many calls the commands, the timer and the webview make in the modular QuotaMonitor
MaxMonitorFetches == 2

\* how many configuration changes the modular QuotaMonitor sees
MaxMonitorConfigChanges == 3

\* one clock step: 3 minutes, exactly the 0.05 h reliability floor
TickMs == 3 * 60 * 1000

\* the clock starts 4 hours after the epoch
StartTime == 4 * MS_PER_HOUR

(***************************************************************************)
(* QuotaData snapshots                                                     *)
(***************************************************************************)
Quota(requests, limit, renewsAt) ==
    [limit |-> limit, requests |-> requests, renewsAt |-> renewsAt]

QuotaData(sub, tool, search) ==
    [subscription |-> sub, search |-> [hourly |-> search], freeToolCalls |-> tool]

Hours(h) == h * MS_PER_HOUR

ToolLow == Quota(100, 500, Hours(24))

ToolHigh == Quota(150, 500, Hours(24))

SearchHigh == Quota(20, 100, Hours(5))

SearchLow == Quota(10, 100, Hours(5))

\* 50% used, 4 h into the cycle, reset in 1 h
DataHalf == QuotaData(Quota(500, 1000, Hours(5)), ToolLow, SearchHigh)

\* 60% used; tool calls up and search down against DataHalf
DataSixty == QuotaData(Quota(600, 1000, Hours(5)), ToolHigh, SearchLow)

\* 50.4% used (not a whole percent), the cycle has only just begun
DataFraction == QuotaData(Quota(63, 125, Hours(9)), ToolLow, SearchLow)

\* 90% used, reset in 1 h
DataNinety == QuotaData(Quota(9, 10, Hours(5)), ToolHigh, SearchHigh)

\* used above the limit (110%), the reset is 3 minutes after the start of the run
DataOver == QuotaData(Quota(11, 10, Hours(4) + TickMs), ToolLow, SearchHigh)

Snapshots == {DataHalf, DataSixty, DataFraction, DataNinety, DataOver}

\* the snapshots a session is seeded with and records
SessionSnapshots == {DataHalf, DataSixty}

\* nothing used yet
DataIdle == QuotaData(Quota(0, 1000, Hours(5)), ToolLow, SearchHigh)

\* 0.1% used: one deadband width above DataIdle
DataOneRequest == QuotaData(Quota(1, 1000, Hours(5)), ToolLow, SearchHigh)

\* 0.2% used: two deadband widths above DataIdle
DataTwoRequests == QuotaData(Quota(2, 1000, Hours(5)), ToolLow, SearchHigh)

\* snapshots that differ by 0, 0.1 and 0.2 percentage points
TrendSnapshots == {DataIdle, DataOneRequest, DataTwoRequests}

\* the nowOverride argument: omitted, the epoch, or 4 h after the epoch
NowOverrides == {Null, Some(0), Some(Hours(4))}

(***************************************************************************)
(* AnalyticsEngine: the methods as functions of the engine's state         *)
(***************************************************************************)
\* quota.requests / quota.limit
UsedFraction(quota) == Rat(quota.requests, quota.limit)

HistoryEntry(data, now) ==
    [timestamp |-> now, subscriptionUsed |-> UsedFraction(data.subscription)]

\* initialize with the tool-call and search baselines taken from each other's family
initialize_SwappedBaselines(tracker, data, trackSession, now) ==
    IF ~trackSession
    THEN Null
    ELSE Some([sessionStartTime |-> now,
               initialSubscriptionQuota |-> UsedFraction(data.subscription),
               initialToolCallsQuota |-> UsedFraction(data.search.hourly),
               initialSearchQuota |-> UsedFraction(data.freeToolCalls),
               history |-> <<HistoryEntry(data, now)>>])

\* initialize that leaves the state alone when tracking is off
initialize_KeepWhenOff(tracker, data, trackSession, now) ==
    IF ~trackSession
    THEN tracker
    ELSE Some([sessionStartTime |-> now,
               initialSubscriptionQuota |-> UsedFraction(data.subscription),
               initialToolCallsQuota |-> UsedFraction(data.freeToolCalls),
               initialSearchQuota |-> UsedFraction(data.search.hourly),
               history |-> <<HistoryEntry(data, now)>>])

\* initialize that keeps the history of an earlier session and appends to it
initialize_Additive(tracker, data, trackSession, now) ==
    IF ~trackSession
    THEN Null
    ELSE Some([sessionStartTime |-> now,
               initialSubscriptionQuota |-> UsedFraction(data.subscription),
               initialToolCallsQuota |-> UsedFraction(data.freeToolCalls),
               initialSearchQuota |-> UsedFraction(data.search.hourly),
               history |-> IF tracker = Null
                           THEN <<HistoryEntry(data, now)>>
                           ELSE <<tracker[1].history[Len(tracker[1].history)],
                                  HistoryEntry(data, now)>>])

\* initialize(data, trackSession) at Date.now() = now: the new sessionTracker
initialize(tracker, data, trackSession, now) ==
    IF ~trackSession
    THEN Null
    ELSE Some([sessionStartTime |-> now,
               initialSubscriptionQuota |-> UsedFraction(data.subscription),
               initialToolCallsQuota |-> UsedFraction(data.freeToolCalls),
               initialSearchQuota |-> UsedFraction(data.search.hourly),
               history |-> <<HistoryEntry(data, now)>>])

\* updateHistory without the eviction
updateHistory_NoEvict(tracker, data, now) ==
    IF tracker = Null
    THEN tracker
    ELSE Some([tracker[1] EXCEPT !.history =
                  Append(tracker[1].history, HistoryEntry(data, now))])

\* updateHistory that evicts with pop() instead of shift(): the newest entry goes
updateHistory_Pop(tracker, data, now) ==
    IF tracker = Null
    THEN tracker
    ELSE LET pushed == Append(tracker[1].history, HistoryEntry(data, now))
         IN  Some([tracker[1] EXCEPT !.history =
                      IF Len(pushed) > MaxHistoryLength
                      THEN SubSeq(pushed, 1, Len(pushed) - 1)
                      ELSE pushed])

\* updateHistory that starts a session when there is none
updateHistory_CreateWhenAbsent(tracker, data, now) ==
    IF tracker = Null
    THEN Some([sessionStartTime |-> now,
               initialSubscriptionQuota |-> UsedFraction(data.subscription),
               initialToolCallsQuota |-> UsedFraction(data.freeToolCalls),
               initialSearchQuota |-> UsedFraction(data.search.hourly),
               history |-> <<HistoryEntry(data, now)>>])
    ELSE LET pushed == Append(tracker[1].history, HistoryEntry(data, now))
         IN  Some([tracker[1] EXCEPT !.history =
                      IF Len(pushed) > MaxHistoryLength THEN Tail(pushed) ELSE pushed])

\* updateHistory(data) at Date.now() = now: the new sessionTracker
updateHistory(tracker, data, now) ==
    IF tracker = Null
    THEN tracker
    ELSE LET pushed == Append(tracker[1].history, HistoryEntry(data, now))
         IN  Some([tracker[1] EXCEPT !.history =
                      IF Len(pushed) > MaxHistoryLength THEN Tail(pushed) ELSE pushed])

\* const now = nowOverride || Date.now(): undefined and 0 are both falsy
effectiveNow(nowOverride, dateNow) ==
    IF nowOverride # Null /\ nowOverride[1] # 0 THEN nowOverride[1] ELSE dateNow

usedPercentOf(data) == RMul(UsedFraction(data.subscription), Num(100))

remainingPercentOf(data) == RSub(Num(100), usedPercentOf(data))

hoursUntilResetOf(data, now) ==
    LET resetTime == data.subscription.renewsAt
        timeUntilReset == IF resetTime - now > 0 THEN resetTime - now ELSE 0
    IN  Rat(timeUntilReset, MS_PER_HOUR)

hoursElapsedInCycleOf(hoursUntilReset) ==
    RMax(Zero, RSub(Num(cycleHours), hoursUntilReset))

\* the global rate without the floor on the elapsed hours
globalBurnRatePerHourOf_NoFloor(usedPercent, hoursElapsedInCycle) ==
    RDiv(usedPercent, hoursElapsedInCycle)

globalBurnRatePerHourOf(usedPercent, hoursElapsedInCycle) ==
    IF RLt(Rat(1, 10), hoursElapsedInCycle)
    THEN RDiv(usedPercent, hoursElapsedInCycle)
    ELSE Zero

\* (last.timestamp - first.timestamp) / MS_PER_HOUR, for a history of >= 2 entries
sessionHoursElapsedOf(history) ==
    Rat(history[Len(history)].timestamp - history[1].timestamp, MS_PER_HOUR)

hasSessionSpan(tracker) == tracker # Null /\ Len(tracker[1].history) >= 2

isSessionReliableOf(tracker) ==
    /\ hasSessionSpan(tracker)
    /\ RLt(Rat(1, 20), sessionHoursElapsedOf(tracker[1].history))

\* the session rate without Math.max(0, ...): negative when usage dropped
sessionBurnRatePerHourOf_Signed(tracker) ==
    IF isSessionReliableOf(tracker)
    THEN LET history == tracker[1].history
             first == history[1]
             last == history[Len(history)]
             usageChange == RMul(RSub(last.subscriptionUsed, first.subscriptionUsed), Num(100))
         IN  RDiv(usageChange, sessionHoursElapsedOf(history))
    ELSE Zero

sessionBurnRatePerHourOf(tracker) ==
    IF isSessionReliableOf(tracker)
    THEN LET history == tracker[1].history
             first == history[1]
             last == history[Len(history)]
             usageChange == RMul(RSub(last.subscriptionUsed, first.subscriptionUsed), Num(100))
         IN  RMax(Zero, RDiv(usageChange, sessionHoursElapsedOf(history)))
    ELSE Zero

\* the trend without the deadband: any rise is up, any drop is down
trendOf_NoDeadband(tracker) ==
    IF isSessionReliableOf(tracker) /\ Len(tracker[1].history) >= 3
    THEN LET history == tracker[1].history
             recent == SubSeq(history, Len(history) - 2, Len(history))
             recentChange ==
                 RMul(RSub(recent[3].subscriptionUsed, recent[1].subscriptionUsed), Num(100))
         IN  IF RLt(Zero, recentChange) THEN "up"
             ELSE IF RLt(recentChange, Zero) THEN "down"
             ELSE "stable"
    ELSE "stable"

\* the trend taken over the whole history, oldest entry against newest
trendOf_WholeSession(tracker) ==
    IF isSessionReliableOf(tracker) /\ Len(tracker[1].history) >= 3
    THEN LET history == tracker[1].history
             recentChange ==
                 RMul(RSub(history[Len(history)].subscriptionUsed,
                           history[1].subscriptionUsed), Num(100))
         IN  IF RLt(Rat(1, 10), recentChange) THEN "up"
             ELSE IF RLt(recentChange, Rat(-1, 10)) THEN "down"
             ELSE "stable"
    ELSE "stable"

trendOf(tracker) ==
    IF isSessionReliableOf(tracker) /\ Len(tracker[1].history) >= 3
    THEN LET history == tracker[1].history
             recent == SubSeq(history, Len(history) - 2, Len(history))
             recentChange ==
                 RMul(RSub(recent[3].subscriptionUsed, recent[1].subscriptionUsed), Num(100))
         IN  IF RLt(Rat(1, 10), recentChange) THEN "up"
             ELSE IF RLt(recentChange, Rat(-1, 10)) THEN "down"
             ELSE "stable"
    ELSE "stable"

\* the blend applied to every session, reliable or not
effectiveBurnRateOf_AlwaysBlend(tracker, globalBurnRatePerHour) ==
    IF tracker # Null
    THEN RAdd(RMul(globalBurnRatePerHour, Rat(7, 10)),
              RMul(sessionBurnRatePerHourOf(tracker), Rat(3, 10)))
    ELSE globalBurnRatePerHour

effectiveBurnRateOf(tracker, globalBurnRatePerHour) ==
    IF isSessionReliableOf(tracker)
    THEN RAdd(RMul(globalBurnRatePerHour, Rat(7, 10)),
              RMul(sessionBurnRatePerHourOf(tracker), Rat(3, 10)))
    ELSE globalBurnRatePerHour

\* the depletion estimate without the check against the reset
hoursUntilDepletionOf_NoResetCheck(burnRatePerHour, remainingPercent, hoursUntilReset) ==
    IF RLt(Num(1), burnRatePerHour) /\ RLt(Zero, remainingPercent) /\ RLt(Zero, hoursUntilReset)
    THEN RDiv(remainingPercent, burnRatePerHour)
    ELSE Null

\* the depletion estimate without the check that quota remains
hoursUntilDepletionOf_NoRemainingCheck(burnRatePerHour, remainingPercent, hoursUntilReset) ==
    IF RLt(Num(1), burnRatePerHour) /\ RLt(Zero, hoursUntilReset)
    THEN LET calculatedDepletion == RDiv(remainingPercent, burnRatePerHour)
         IN  IF RLt(calculatedDepletion, hoursUntilReset) THEN calculatedDepletion ELSE Null
    ELSE Null

hoursUntilDepletionOf(burnRatePerHour, remainingPercent, hoursUntilReset) ==
    IF RLt(Num(1), burnRatePerHour) /\ RLt(Zero, remainingPercent) /\ RLt(Zero, hoursUntilReset)
    THEN LET calculatedDepletion == RDiv(remainingPercent, burnRatePerHour)
         IN  IF RLt(calculatedDepletion, hoursUntilReset) THEN calculatedDepletion ELSE Null
    ELSE Null

\* the forecast without the cap at 100
projectedUsageAtResetOf_NoCap(usedPercent, burnRatePerHour, hoursUntilReset) ==
    IF RLt(Zero, hoursUntilReset)
    THEN MathRound(RAdd(usedPercent, RMul(burnRatePerHour, hoursUntilReset)))
    ELSE Null

\* the forecast made also at the instant of the reset (hoursUntilReset >= 0)
projectedUsageAtResetOf_AtReset(usedPercent, burnRatePerHour, hoursUntilReset) ==
    IF RLe(Zero, hoursUntilReset)
    THEN LET remainingUsageForecast == RMul(burnRatePerHour, hoursUntilReset)
         IN  RMin(Num(100), MathRound(RAdd(usedPercent, remainingUsageForecast)))
    ELSE Null

\* the forecast truncated with Math.floor instead of rounded
projectedUsageAtResetOf_Floor(usedPercent, burnRatePerHour, hoursUntilReset) ==
    IF RLt(Zero, hoursUntilReset)
    THEN LET remainingUsageForecast == RMul(burnRatePerHour, hoursUntilReset)
             forecast == RAdd(usedPercent, remainingUsageForecast)
         IN  RMin(Num(100), Num(forecast[1] \div forecast[2]))
    ELSE Null

\* the forecast of the usage still to come alone, without the usage so far
projectedUsageAtResetOf_ForecastOnly(usedPercent, burnRatePerHour, hoursUntilReset) ==
    IF RLt(Zero, hoursUntilReset)
    THEN LET remainingUsageForecast == RMul(burnRatePerHour, hoursUntilReset)
         IN  RMin(Num(100), MathRound(remainingUsageForecast))
    ELSE Null

projectedUsageAtResetOf(usedPercent, burnRatePerHour, hoursUntilReset) ==
    IF RLt(Zero, hoursUntilReset)
    THEN LET remainingUsageForecast == RMul(burnRatePerHour, hoursUntilReset)
         IN  RMin(Num(100), MathRound(RAdd(usedPercent, remainingUsageForecast)))
    ELSE Null

sessionHistoryOf(tracker) ==
    IF tracker # Null
    THEN [i \in 1..Len(tracker[1].history) |->
             [timestamp |-> tracker[1].history[i].timestamp,
              usage |-> MathRound(RMul(tracker[1].history[i].subscriptionUsed, Num(100)))]]
    ELSE <<>>

\* getAnalytics(data, nowOverride) at Date.now() = dateNow: the QuotaAnalytics returned
getAnalytics(tracker, data, nowOverride, dateNow) ==
    LET now == effectiveNow(nowOverride, dateNow)
        usedPercent == usedPercentOf(data)
        remainingPercent == remainingPercentOf(data)
        hoursUntilReset == hoursUntilResetOf(data, now)
        hoursElapsedInCycle == hoursElapsedInCycleOf(hoursUntilReset)
        globalBurnRatePerHour == globalBurnRatePerHourOf(usedPercent, hoursElapsedInCycle)
        burnRatePerHour == effectiveBurnRateOf(tracker, globalBurnRatePerHour)
    IN  [burnRatePerHour |-> burnRatePerHour,
         hoursUntilDepletion |->
             hoursUntilDepletionOf(burnRatePerHour, remainingPercent, hoursUntilReset),
         trend |-> trendOf(tracker),
         projectedUsageAtReset |->
             projectedUsageAtResetOf(usedPercent, burnRatePerHour, hoursUntilReset),
         sessionHistory |-> sessionHistoryOf(tracker)]

\* the divisors of the divisions one getAnalytics(data, nowOverride) call performs
getAnalyticsDivisors(tracker, data, nowOverride, dateNow) ==
    LET now == effectiveNow(nowOverride, dateNow)
        usedPercent == usedPercentOf(data)
        remainingPercent == remainingPercentOf(data)
        hoursUntilReset == hoursUntilResetOf(data, now)
        hoursElapsedInCycle == hoursElapsedInCycleOf(hoursUntilReset)
        globalBurnRatePerHour == globalBurnRatePerHourOf(usedPercent, hoursElapsedInCycle)
        burnRatePerHour == effectiveBurnRateOf(tracker, globalBurnRatePerHour)
    IN  {Num(data.subscription.limit), Num(MS_PER_HOUR)}
        \cup (IF RLt(Rat(1, 10), hoursElapsedInCycle) THEN {hoursElapsedInCycle} ELSE {})
        \cup (IF hasSessionSpan(tracker) THEN {Num(MS_PER_HOUR)} ELSE {})
        \cup (IF isSessionReliableOf(tracker)
              THEN {sessionHoursElapsedOf(tracker[1].history)}
              ELSE {})
        \cup (IF /\ RLt(Num(1), burnRatePerHour)
                 /\ RLt(Zero, remainingPercent)
                 /\ RLt(Zero, hoursUntilReset)
              THEN {burnRatePerHour}
              ELSE {})

\* getAnalytics taking the recent entries with splice(-3), which removes them
getAnalyticsEffect_Splice(tracker) ==
    IF tracker # Null /\ Len(tracker[1].history) >= 3
    THEN Some([tracker[1] EXCEPT !.history =
                  SubSeq(tracker[1].history, 1, Len(tracker[1].history) - 3)])
    ELSE tracker

\* the sessionTracker after getAnalytics: slice() and map() copy, nothing is assigned
getAnalyticsEffect(tracker) == tracker

ZeroUsage == [subscription |-> Zero, toolCalls |-> Zero, search |-> Zero]

\* getSessionUsage(data): the session-relative usage returned
getSessionUsage(tracker, data) ==
    IF tracker = Null
    THEN ZeroUsage
    ELSE LET currentSubPercent == UsedFraction(data.subscription)
             currentToolPercent == UsedFraction(data.freeToolCalls)
             currentSearchPercent == UsedFraction(data.search.hourly)
         IN  [subscription |->
                  MathRound(RMul(RSub(currentSubPercent, tracker[1].initialSubscriptionQuota),
                                 Num(100))),
              toolCalls |->
                  MathRound(RMul(RSub(currentToolPercent, tracker[1].initialToolCallsQuota),
                                 Num(100))),
              search |->
                  MathRound(RMul(RSub(currentSearchPercent, tracker[1].initialSearchQuota),
                                 Num(100)))]

\* the sessionTracker after getSessionUsage: the method only reads it
getSessionUsageEffect(tracker) == tracker

(***************************************************************************)
(* The single-file QuotaMonitor of src/extension.ts, which keeps its own   *)
(* sessionTracker.  Its QuotaData names the tool-call family toolCalls.    *)
(***************************************************************************)
toolCallsOf(data) == data.freeToolCalls

\* initializeSessionTracker(data) at Date.now() = now: the new sessionTracker
initializeSessionTracker(tracker, data, shouldTrackSession, now) ==
    IF ~shouldTrackSession
    THEN Null
    ELSE Some([sessionStartTime |-> now,
               initialSubscriptionQuota |-> UsedFraction(data.subscription),
               initialToolCallsQuota |-> UsedFraction(toolCallsOf(data)),
               initialSearchQuota |-> UsedFraction(data.search.hourly),
               history |-> <<HistoryEntry(data, now)>>])

\* updateSessionHistory(data) at Date.now() = now: the new sessionTracker
updateSessionHistory(tracker, data, now) ==
    IF tracker = Null
    THEN tracker
    ELSE LET pushed == Append(tracker[1].history, HistoryEntry(data, now))
         IN  Some([tracker[1] EXCEPT !.history =
                      IF Len(pushed) > MaxHistoryLength THEN Tail(pushed) ELSE pushed])

\* QuotaMonitor.getSessionUsage(data): baseline minus current, per family
legacyGetSessionUsage(tracker, data) ==
    IF tracker = Null
    THEN ZeroUsage
    ELSE LET currentSubPercent == UsedFraction(data.subscription)
             currentToolPercent == UsedFraction(toolCallsOf(data))
             currentSearchPercent == UsedFraction(data.search.hourly)
         IN  [subscription |->
                  MathRound(RMul(RSub(tracker[1].initialSubscriptionQuota, currentSubPercent),
                                 Num(100))),
              toolCalls |->
                  MathRound(RMul(RSub(tracker[1].initialToolCallsQuota, currentToolPercent),
                                 Num(100))),
              search |->
                  MathRound(RMul(RSub(tracker[1].initialSearchQuota, currentSearchPercent),
                                 Num(100)))]

\* checkQuotaNotifications(data): the two flags and the warning shown, if any
checkQuotaNotifications(m, data, threshold) ==
    IF threshold <= 0
    THEN [m EXCEPT !.warningShown = "none"]
    ELSE LET remainingPercent == remainingPercentOf(data)
             depleted == RLe(remainingPercent, Zero) /\ ~m.zeroQuotaNotified
             low == /\ ~depleted
                    /\ RLe(remainingPercent, Num(threshold))
                    /\ ~m.lowQuotaNotified
                    /\ RLt(Zero, remainingPercent)
             lowAfterWarning == IF low THEN TRUE ELSE m.lowQuotaNotified
             zeroAfterWarning == IF depleted THEN TRUE ELSE m.zeroQuotaNotified
         IN  [m EXCEPT
                 !.warningShown = IF depleted THEN "depleted"
                                  ELSE IF low THEN "low" ELSE "none",
                 !.lowQuotaNotified =
                     IF RLt(Num(threshold), remainingPercent) THEN FALSE ELSE lowAfterWarning,
                 !.zeroQuotaNotified =
                     IF RLt(Zero, remainingPercent) THEN FALSE ELSE zeroAfterWarning]

\* history of the warnings: a warning is outstanding from the moment it is shown
\* until a snapshot is seen whose remaining quota is above the threshold in
\* force (above 0 for the depleted warning); repeated records a warning shown
\* while it was outstanding.  The SinceChange fields are the same for the
\* low-quota warning with a change of the threshold ending what is outstanding.
\* before and after are the monitor around one checkQuotaNotifications(data) call
noteWarnings(before, after, data, threshold) ==
    LET remainingPercent == remainingPercentOf(data)
        low == after.warningShown = "low"
        depleted == after.warningShown = "depleted"
    IN  [after EXCEPT
            !.lowRepeated = before.lowRepeated \/ (low /\ before.lowOutstanding),
            !.zeroRepeated = before.zeroRepeated \/ (depleted /\ before.zeroOutstanding),
            !.lowOutstanding = IF RLt(Num(threshold), remainingPercent)
                               THEN FALSE
                               ELSE before.lowOutstanding \/ low,
            !.lowRepeatedSinceChange =
                before.lowRepeatedSinceChange \/ (low /\ before.lowOutstandingSinceChange),
            !.lowOutstandingSinceChange =
                IF RLt(Num(threshold), remainingPercent)
                THEN FALSE
                ELSE before.lowOutstandingSinceChange \/ low,
            !.zeroOutstanding = IF RLt(Zero, remainingPercent)
                                THEN FALSE
                                ELSE before.zeroOutstanding \/ depleted]

\* updateStatusBar(): records the current data in the history, then shows it
\* with the session usage; <<monitor, status bar>> afterwards
updateStatusBar(m, bar, now) ==
    IF m.quotaData = Null
    THEN <<m, bar>>
    ELSE LET tracker == updateSessionHistory(m.sessionTracker, m.quotaData[1], now)
         IN  <<[m EXCEPT !.sessionTracker = tracker],
               [text |-> "quota",
                sessionUsage |-> legacyGetSessionUsage(tracker, m.quotaData[1])]>>

LegacyInit ==
    /\ legacy = [quotaData |-> Null,
                 isFetching |-> FALSE,
                 lastFetchTime |-> Null,
                 fetchError |-> FALSE,
                 sessionTracker |-> Null,
                 lowQuotaNotified |-> FALSE,
                 zeroQuotaNotified |-> FALSE,
                 warningShown |-> "none",
                 lowOutstanding |-> FALSE,
                 zeroOutstanding |-> FALSE,
                 lowRepeated |-> FALSE,
                 zeroRepeated |-> FALSE,
                 lowOutstandingSinceChange |-> FALSE,
                 lowRepeatedSinceChange |-> FALSE,
                 seedData |-> Null,
                 fetches |-> 0,
                 configChanges |-> 0]
    /\ settings = [apiKey |-> TRUE,
                   trackSessionUsage |-> TRUE,
                   lowQuotaNotificationThreshold |-> 0]
    /\ statusBar = [text |-> "none", sessionUsage |-> ZeroUsage]

\* refreshQuota() up to its await: a timer tick, the refresh command or a retry
LegacyRefreshQuota ==
    /\ legacy.fetches < MaxFetches
    /\ IF ~settings.apiKey
       THEN /\ statusBar' = [statusBar EXCEPT !.text = "setup"]
            /\ legacy' = [legacy EXCEPT !.fetches = @ + 1]
       ELSE IF legacy.isFetching
       THEN /\ legacy' = [legacy EXCEPT !.fetches = @ + 1]
            /\ UNCHANGED statusBar
       ELSE /\ legacy' = [legacy EXCEPT !.isFetching = TRUE, !.fetches = @ + 1]
            /\ statusBar' = [statusBar EXCEPT !.text = "loading"]
    /\ UNCHANGED <<settings, clock>>
    /\ UNCHANGED engineVars
    /\ UNCHANGED monitor

\* refreshQuota() from the await on, when fetchQuotaData resolves with data
LegacyFetchResolves(data) ==
    /\ legacy.isFetching
    /\ LET seeding == legacy.sessionTracker = Null
           seeded ==
               [legacy EXCEPT
                   !.sessionTracker =
                       IF seeding
                       THEN initializeSessionTracker(@, data, settings.trackSessionUsage, clock)
                       ELSE @,
                   !.seedData = IF seeding THEN Some(data) ELSE @,
                   !.quotaData = Some(data),
                   !.lastFetchTime = Some(clock),
                   !.fetchError = FALSE]
           notified ==
               noteWarnings(seeded,
                            checkQuotaNotifications(seeded, data,
                                                    settings.lowQuotaNotificationThreshold),
                            data, settings.lowQuotaNotificationThreshold)
           shown == updateStatusBar(notified, statusBar, clock)
       IN  /\ legacy' = [shown[1] EXCEPT !.isFetching = FALSE]
           /\ statusBar' = shown[2]
    /\ UNCHANGED <<settings, clock>>
    /\ UNCHANGED engineVars
    /\ UNCHANGED monitor

\* refreshQuota() from the await on, when fetchQuotaData rejects
LegacyFetchRejects ==
    /\ legacy.isFetching
    /\ legacy' = [legacy EXCEPT !.fetchError = TRUE, !.isFetching = FALSE,
                                !.warningShown = "none"]
    /\ statusBar' = [statusBar EXCEPT !.text = "error"]
    /\ UNCHANGED <<settings, clock>>
    /\ UNCHANGED engineVars
    /\ UNCHANGED monitor

\* the user toggles trackSessionUsage: onConfigurationChanged redraws the status bar
LegacyTrackSessionUsageChanged ==
    /\ legacy.configChanges < MaxConfigChanges
    /\ settings' = [settings EXCEPT !.trackSessionUsage = ~@]
    /\ LET shown == updateStatusBar([legacy EXCEPT !.configChanges = @ + 1,
                                                   !.warningShown = "none"],
                                    statusBar, clock)
       IN  /\ legacy' = shown[1]
           /\ statusBar' = shown[2]
    /\ UNCHANGED clock
    /\ UNCHANGED engineVars
    /\ UNCHANGED monitor

\* the user sets lowQuotaNotificationThreshold: onConfigurationChanged re-arms
\* the low-quota warning and checks the current data against the new value
LegacyThresholdChanged(threshold) ==
    /\ legacy.configChanges < MaxConfigChanges
    /\ threshold # settings.lowQuotaNotificationThreshold
    /\ settings' = [settings EXCEPT !.lowQuotaNotificationThreshold = threshold]
    /\ LET rearmed == [legacy EXCEPT !.lowQuotaNotified = FALSE,
                                     !.warningShown = "none",
                                     !.lowOutstandingSinceChange = FALSE,
                                     !.configChanges = @ + 1]
       IN  legacy' = IF legacy.quotaData # Null
                     THEN noteWarnings(rearmed,
                                       checkQuotaNotifications(rearmed, legacy.quotaData[1],
                                                               threshold),
                                       legacy.quotaData[1], threshold)
                     ELSE rearmed
    /\ UNCHANGED <<statusBar, clock>>
    /\ UNCHANGED engineVars
    /\ UNCHANGED monitor

(***************************************************************************)
(* The modular QuotaMonitor: it owns a QuotaService, which owns the        *)
(* QuotaClient and the AnalyticsEngine.  monitor.config is what            *)
(* getApiKey() and getConfig() read; apiKey is TRUE when a non-empty key   *)
(* is configured.                                                          *)
(***************************************************************************)
\* what the status bar shows outside the quota display
Shown(text) == [text |-> text, sessionUsage |-> ZeroUsage, analytics |-> [void |-> TRUE]]

\* the single-file QuotaMonitor's getRefreshInterval(): the timer period in ms
getRefreshInterval(seconds) == Max(60, Min(3600, seconds)) * 1000

\* the messages fetchQuotaData rejects with, one per kind of failure
RateLimited == "Rate limited. Please try again later"

RequestTimeout == "Request timeout"

NetworkError == "Network error"

InvalidStructure == "Invalid API response structure"

FetchErrors == {RateLimited, RequestTimeout, NetworkError, InvalidStructure}

\* clearInterval(this.refreshTimer), done when a timer was ever set: the timer
\* the handle names stops, if it was still running
clearRefreshTimer(m) ==
    IF m.refreshTimer # Null /\ m.refreshTimerLive
    THEN [m EXCEPT !.refreshTimerLive = FALSE, !.activeTimers = @ - 1]
    ELSE m

\* startAutoRefresh(): any running timer is cleared and one is set with the
\* period Math.max(60000, refreshInterval * 1000)
startAutoRefresh(m) ==
    [clearRefreshTimer(m) EXCEPT
        !.refreshTimer = Some(Max(60000, m.config.refreshInterval * 1000)),
        !.refreshTimerLive = TRUE,
        !.activeTimers = @ + 1]

\* updateUI(): the status bar is redrawn from currentData and the engine
updateUI(m, now) ==
    IF m.currentData = Null
    THEN m
    ELSE [m EXCEPT !.shown =
             [text |-> "quota",
              sessionUsage |-> getSessionUsage(m.sessionTracker, m.currentData[1]),
              analytics |-> getAnalytics(m.sessionTracker, m.currentData[1], Null, now)]]

\* refreshQuota() without the isFetching check
refreshQuota_NoGuard(m) ==
    IF ~m.hasClient
    THEN [m EXCEPT !.fetchError = Some("API Key not set"),
                   !.shown = Shown("error"),
                   !.isFetching = FALSE]
    ELSE [m EXCEPT !.isFetching = TRUE, !.shown = Shown("loading"), !.inFlight = @ + 1]

\* refreshQuota() up to the point where it waits for the fetch; without a
\* client QuotaService.refreshQuota throws at once and the call is over.
\* inFlight counts the requests QuotaClient has sent and not yet settled
refreshQuota(m) ==
    IF m.isFetching
    THEN m
    ELSE IF ~m.hasClient
    THEN [m EXCEPT !.fetchError = Some("API Key not set"),
                   !.shown = Shown("error"),
                   !.isFetching = FALSE]
    ELSE [m EXCEPT !.isFetching = TRUE, !.shown = Shown("loading"), !.inFlight = @ + 1]

\* the rest of refreshQuota() with the session seeded on every fetch
fetchResolved_SeedAlways(m, data, now) ==
    LET recorded == updateHistory(m.sessionTracker, data, now)
        tracker == initialize(recorded, data, m.config.trackSession, now)
        stored == [m EXCEPT !.sessionTracker = tracker,
                            !.initializeCalls = @ + 1,
                            !.successfulFetches = @ + 1,
                            !.currentData = Some(data),
                            !.fetchError = Null]
    IN  [updateUI(stored, now) EXCEPT !.isFetching = FALSE, !.inFlight = @ - 1]

\* the rest of refreshQuota() when the fetch returned data: QuotaService records
\* it, the first data seeds the session, the UI is redrawn.  initializeCalls
\* counts the initializeSession calls, successfulFetches the fetches that
\* returned data
fetchResolved(m, data, now) ==
    LET recorded == updateHistory(m.sessionTracker, data, now)
        seeding == m.currentData = Null
        tracker == IF seeding
                   THEN initialize(recorded, data, m.config.trackSession, now)
                   ELSE recorded
        stored == [m EXCEPT !.sessionTracker = tracker,
                            !.initializeCalls = IF seeding THEN @ + 1 ELSE @,
                            !.successfulFetches = @ + 1,
                            !.currentData = Some(data),
                            !.fetchError = Null]
    IN  [updateUI(stored, now) EXCEPT !.isFetching = FALSE, !.inFlight = @ - 1]

\* the rest of refreshQuota() with a catch block that drops the data held
fetchRejected_DropData(m, error) ==
    [m EXCEPT !.fetchError = Some(error),
              !.shown = Shown("error"),
              !.currentData = Null,
              !.isFetching = FALSE,
              !.inFlight = @ - 1]

\* the rest of refreshQuota() without the finally block
fetchRejected_NoFinally(m, error) ==
    [m EXCEPT !.fetchError = Some(error), !.shown = Shown("error"), !.inFlight = @ - 1]

\* the rest of refreshQuota() when the fetch failed with the message error
fetchRejected(m, error) ==
    [m EXCEPT !.fetchError = Some(error),
              !.shown = Shown("error"),
              !.isFetching = FALSE,
              !.inFlight = @ - 1]

\* an initialize() that was waiting for refreshQuota() goes on to startAutoRefresh()
resumeInitialize(m) ==
    IF m.initializePending
    THEN startAutoRefresh([m EXCEPT !.initializePending = FALSE])
    ELSE m

\* initialize(): without a key the setup prompt; with one, a new client, a
\* refresh and, once that is over, the timer
monitorInitialize(m) ==
    IF ~m.config.apiKey
    THEN [m EXCEPT !.shown = Shown("setup")]
    ELSE LET keyed == [m EXCEPT !.hasClient = TRUE]
         IN  IF refreshQuota(keyed).isFetching /\ ~keyed.isFetching
             THEN [refreshQuota(keyed) EXCEPT !.initializePending = TRUE]
             ELSE startAutoRefresh(refreshQuota(keyed))

\* dispose(): the timer is cleared and the status bar item disposed of
dispose(m) == [clearRefreshTimer(m) EXCEPT !.shown = Shown("disposed"), !.disposed = TRUE]

\* the monitor as constructed while no API key is configured
MonitorInit ==
    monitor = [config |-> [apiKey |-> FALSE, trackSession |-> TRUE, refreshInterval |-> 300],
               currentData |-> Null,
               isFetching |-> FALSE,
               fetchError |-> Null,
               hasClient |-> FALSE,
               sessionTracker |-> Null,
               refreshTimer |-> Null,
               refreshTimerLive |-> FALSE,
               activeTimers |-> 0,
               initializePending |-> FALSE,
               webviewOpen |-> FALSE,
               disposed |-> FALSE,
               shown |-> Shown("setup"),
               inFlight |-> 0,
               initializeCalls |-> 0,
               successfulFetches |-> 0,
               retryDelays |-> <<>>,
               lastStep |-> "new",
               fetches |-> 0,
               configChanges |-> 0]

\* the delays of the automatic retries since the fetches began to fail with
\* 429: a timer tick that starts a fetch after such a failure is a retry, made
\* after the timer's period
retryDelaysAfter(m, source) ==
    IF /\ source = "timer"
       /\ m.fetchError = Some(RateLimited)
       /\ ~m.isFetching
       /\ m.hasClient
    THEN Append(m.retryDelays, m.refreshTimer[1])
    ELSE m.retryDelays

\* refreshQuota() is called by the refresh command, by the timer or by the
\* refresh message of the details webview
MonitorRefreshQuota(source) ==
    /\ monitor.fetches < MaxMonitorFetches
    /\ source = "timer" => monitor.activeTimers > 0
    /\ source = "webview" => monitor.webviewOpen
    /\ monitor' = [refreshQuota(monitor) EXCEPT
                       !.retryDelays = retryDelaysAfter(monitor, source),
                       !.lastStep = "refreshQuota",
                       !.fetches = @ + 1]
    /\ UNCHANGED <<clock, legacyVars>>
    /\ UNCHANGED engineVars

\* the showDetails command: without data a refresh, with data the webview
MonitorShowDetails ==
    /\ monitor.fetches < MaxMonitorFetches
    /\ monitor' = [(IF monitor.currentData = Null
                     THEN refreshQuota(monitor)
                     ELSE [monitor EXCEPT !.webviewOpen = TRUE])
                       EXCEPT !.lastStep = "showDetails", !.fetches = @ + 1]
    /\ UNCHANGED <<clock, legacyVars>>
    /\ UNCHANGED engineVars

\* a request in flight returns data
MonitorFetchResolves(data) ==
    /\ monitor.inFlight > 0
    /\ monitor' = [resumeInitialize(fetchResolved(monitor, data, clock)) EXCEPT
                       !.retryDelays = <<>>,
                       !.lastStep = "fetchResolved"]
    /\ UNCHANGED <<clock, legacyVars>>
    /\ UNCHANGED engineVars

\* a request in flight fails: a 429 answer, or the 10 s timeout
MonitorFetchRejects(error) ==
    /\ monitor.inFlight > 0
    /\ monitor' = [resumeInitialize(fetchRejected(monitor, error)) EXCEPT
                       !.retryDelays = IF error = RateLimited THEN @ ELSE <<>>,
                       !.lastStep = "fetchRejected"]
    /\ UNCHANGED <<clock, legacyVars>>
    /\ UNCHANGED engineVars

\* onConfigurationChanged for syntheticQuota.apiKey
MonitorApiKeyChanged(apiKey) ==
    /\ monitor.configChanges < MaxMonitorConfigChanges
    /\ monitor' = monitorInitialize([monitor EXCEPT !.config.apiKey = apiKey,
                                                     !.lastStep = "apiKeyChanged",
                                                     !.configChanges = @ + 1])
    /\ UNCHANGED <<clock, legacyVars>>
    /\ UNCHANGED engineVars

\* onConfigurationChanged for syntheticQuota.refreshInterval
MonitorRefreshIntervalChanged(seconds) ==
    /\ monitor.configChanges < MaxMonitorConfigChanges
    /\ seconds # monitor.config.refreshInterval
    /\ monitor' = startAutoRefresh([monitor EXCEPT !.config.refreshInterval = seconds,
                                                    !.lastStep = "refreshIntervalChanged",
                                                    !.configChanges = @ + 1])
    /\ UNCHANGED <<clock, legacyVars>>
    /\ UNCHANGED engineVars

\* onConfigurationChanged for syntheticQuota.trackSessionUsage: the UI is redrawn
MonitorTrackSessionChanged ==
    /\ monitor.configChanges < MaxMonitorConfigChanges
    /\ monitor' = updateUI([monitor EXCEPT !.config.trackSession = ~@,
                                           !.lastStep = "trackSessionChanged",
                                           !.configChanges = @ + 1], clock)
    /\ UNCHANGED <<clock, legacyVars>>
    /\ UNCHANGED engineVars

\* dispose() is called
MonitorDispose ==
    /\ ~monitor.disposed
    /\ monitor' = [dispose(monitor) EXCEPT !.lastStep = "dispose"]
    /\ UNCHANGED <<clock, legacyVars>>
    /\ UNCHANGED engineVars

(***************************************************************************)
(* The engine as a state machine                                           *)
(***************************************************************************)
Void == [void |-> TRUE]

Call(op, data, trackSession, nowOverride, at, priorLength) ==
    [op |-> op, data |-> data, trackSession |-> trackSession,
     nowOverride |-> nowOverride, at |-> at, priorLength |-> priorLength]

historyLength(tracker) == IF tracker = Null THEN 0 ELSE Len(tracker[1].history)

Init ==
    /\ sessionTracker = Null
    /\ clock = StartTime
    /\ call = Call("new", DataHalf, FALSE, Null, StartTime, 0)
    /\ ret = Void
    /\ seed = [mode |-> "never", data |-> DataHalf, cleared |-> 0]
    /\ log = <<>>
    /\ LegacyInit
    /\ MonitorInit

\* time passes between two calls
Tick(maxTicks) ==
    /\ clock < StartTime + maxTicks * TickMs
    /\ clock' = clock + TickMs
    /\ call' = Call("tick", DataHalf, FALSE, Null, clock, 0)
    /\ ret' = Void
    /\ UNCHANGED <<sessionTracker, seed, log>>
    /\ UNCHANGED legacyVars
    /\ UNCHANGED monitor

Initialize(data, trackSession) ==
    /\ sessionTracker' = initialize(sessionTracker, data, trackSession, clock)
    /\ call' = Call("initialize", data, trackSession, Null, clock,
                    historyLength(sessionTracker))
    /\ ret' = Void
    /\ seed' = [mode |-> IF trackSession THEN "on" ELSE "off", data |-> data,
                cleared |-> IF trackSession THEN 0 ELSE historyLength(sessionTracker)]
    /\ log' = IF trackSession
              THEN <<[timestamp |-> clock,
                      subscriptionUsed |-> Rat(data.subscription.requests,
                                               data.subscription.limit)]>>
              ELSE <<>>
    /\ UNCHANGED clock
    /\ UNCHANGED legacyVars
    /\ UNCHANGED monitor

UpdateHistory(data, maxLog) ==
    /\ Len(log) < maxLog
    /\ sessionTracker' = updateHistory(sessionTracker, data, clock)
    /\ call' = Call("updateHistory", data, FALSE, Null, clock,
                    historyLength(sessionTracker))
    /\ ret' = Void
    /\ log' = IF seed.mode = "on"
              THEN Append(log, [timestamp |-> clock,
                                subscriptionUsed |-> Rat(data.subscription.requests,
                                                         data.subscription.limit)])
              ELSE log
    /\ UNCHANGED <<clock, seed>>
    /\ UNCHANGED legacyVars
    /\ UNCHANGED monitor

GetAnalytics(data, nowOverride) ==
    /\ ret' = getAnalytics(sessionTracker, data, nowOverride, clock)
    /\ sessionTracker' = getAnalyticsEffect(sessionTracker)
    /\ call' = Call("getAnalytics", data, FALSE, nowOverride, clock,
                    historyLength(sessionTracker))
    /\ UNCHANGED <<clock, seed, log>>
    /\ UNCHANGED legacyVars
    /\ UNCHANGED monitor

GetSessionUsage(data) ==
    /\ ret' = getSessionUsage(sessionTracker, data)
    /\ sessionTracker' = getSessionUsageEffect(sessionTracker)
    /\ call' = Call("getSessionUsage", data, FALSE, Null, clock,
                    historyLength(sessionTracker))
    /\ UNCHANGED <<clock, seed, log>>
    /\ UNCHANGED legacyVars
    /\ UNCHANGED monitor

Next ==
    \/ Tick(MaxTicks)
    \/ \E data \in SessionSnapshots, trackSession \in BOOLEAN :
           Initialize(data, trackSession)
    \/ \E data \in SessionSnapshots : UpdateHistory(data, MaxUpdates + 1)
    \/ \E data \in Snapshots, nowOverride \in NowOverrides : GetAnalytics(data, nowOverride)
    \/ \E data \in Snapshots : GetSessionUsage(data)

Spec == Init /\ [][Next]_vars

\* one long session of a few distinct snapshots, to fill the history and overflow it
NextHistory ==
    \/ Tick(MaxLogTicks)
    \/ \E data \in SessionSnapshots, trackSession \in BOOLEAN : Initialize(data, trackSession)
    \/ \E data \in SessionSnapshots : UpdateHistory(data, MaxLog)

SpecHistory == Init /\ [][NextHistory]_vars

\* the trend test's clock origin, in ms since the epoch
TestT0 == 1000000

\* the trend test's spacing between history entries: 5 minutes
TestSpacing == 5 * 60 * 1000

\* the history the trend test installs: 0.50, 0.52, 0.55, 0.60
TestHistory ==
    <<[timestamp |-> TestT0, subscriptionUsed |-> Rat(50, 100)],
      [timestamp |-> TestT0 + TestSpacing, subscriptionUsed |-> Rat(52, 100)],
      [timestamp |-> TestT0 + 2 * TestSpacing, subscriptionUsed |-> Rat(55, 100)],
      [timestamp |-> TestT0 + 3 * TestSpacing, subscriptionUsed |-> Rat(60, 100)]>>

\* the trend test anchors the session tracker: it assigns the private field
AnchorSessionTracker ==
    /\ sessionTracker' = Some([sessionStartTime |-> TestT0,
                               initialSubscriptionQuota |-> Rat(5, 10),
                               initialToolCallsQuota |-> Rat(2, 10),
                               initialSearchQuota |-> Rat(2, 10),
                               history |-> TestHistory])
    /\ call' = Call("anchor", DataHalf, TRUE, Null, clock, historyLength(sessionTracker))
    /\ ret' = Void
    /\ seed' = [mode |-> "on", data |-> DataHalf, cleared |-> 0]
    /\ log' = TestHistory
    /\ UNCHANGED clock
    /\ UNCHANGED legacyVars
    /\ UNCHANGED monitor

\* the snapshots the trend runs read, and the now they are read at: the
\* clock, or the time of the trend test's newest entry
TrendReads == {DataIdle, DataHalf}

TrendNowOverrides == {Null, Some(TestT0 + 3 * TestSpacing)}

\* sessions whose entries differ by whole deadband widths, read after 0, 3 and 6 minutes
NextTrend ==
    \/ Tick(MaxTrendTicks)
    \/ \E data \in TrendSnapshots, trackSession \in BOOLEAN : Initialize(data, trackSession)
    \/ \E data \in TrendSnapshots : UpdateHistory(data, MaxTrendLog)
    \/ AnchorSessionTracker
    \/ \E data \in TrendReads, nowOverride \in TrendNowOverrides :
           GetAnalytics(data, nowOverride)

SpecTrend == Init /\ [][NextTrend]_vars

\* the values of lowQuotaNotificationThreshold the user sets
Thresholds == {0, 45, 50}

NextLegacy ==
    \/ Tick(MaxLogTicks)
    \/ LegacyRefreshQuota
    \/ \E data \in Snapshots : LegacyFetchResolves(data)
    \/ LegacyFetchRejects
    \/ LegacyTrackSessionUsageChanged
    \/ \E threshold \in Thresholds : LegacyThresholdChanged(threshold)

SpecLegacy == Init /\ [][NextLegacy]_vars

\* the single-file monitor with a fetch that does not return data failing in the end
SpecLegacyLive == Init /\ [][NextLegacy]_vars /\ WF_vars(LegacyFetchRejects)

\* the values of refreshInterval the user sets, in seconds
RefreshIntervals == {30, 300, 3600, 7200}

\* the steps of the modular monitor; the clock stands still, the time between
\* the steps being the engine's concern and covered by Spec, SpecHistory and SpecTrend
NextMonitor ==
    \/ \E source \in {"command", "timer", "webview"} : MonitorRefreshQuota(source)
    \/ MonitorShowDetails
    \/ \E data \in SessionSnapshots : MonitorFetchResolves(data)
    \/ \E error \in FetchErrors : MonitorFetchRejects(error)
    \/ \E apiKey \in BOOLEAN : MonitorApiKeyChanged(apiKey)
    \/ \E seconds \in RefreshIntervals : MonitorRefreshIntervalChanged(seconds)
    \/ MonitorTrackSessionChanged
    \/ MonitorDispose

SpecMonitor == Init /\ [][NextMonitor]_vars

\* the steps that start, block or end a fetch: the calls of refreshQuota, the
\* API-key change that runs initialize(), the outcomes of the request, dispose()
NextMonitorLive ==
    \/ \E source \in {"command", "timer", "webview"} : MonitorRefreshQuota(source)
    \/ MonitorShowDetails
    \/ \E apiKey \in BOOLEAN : MonitorApiKeyChanged(apiKey)
    \/ \E data \in SessionSnapshots : MonitorFetchResolves(data)
    \/ \E error \in FetchErrors : MonitorFetchRejects(error)
    \/ MonitorDispose

\* the modular monitor with the timeout of fetchQuotaData at work: a request
\* that stays in flight is destroyed after 10 s and its fetch rejected
SpecMonitorLive ==
    Init /\ [][NextMonitorLive]_vars /\ WF_vars(MonitorFetchRejects(RequestTimeout))

(***************************************************************************)
(* Properties                                                              *)
(***************************************************************************)
history == sessionTracker[1].history

\* the used/limit ratio of a family, from the snapshot's own numbers
Ratio(quota) == Rat(quota.requests, quota.limit)

\* C1: whatever initialize and updateHistory calls were made, the session
\* history holds at most 10 entries.
C1_HistoryAtMostTen == sessionTracker # Null => Len(history) <= 10

\* an eleventh entry has been recorded and the history is full
C1_Witness == sessionTracker # Null /\ Len(log) > 10 /\ Len(history) = 10

\* C2: eviction is strict FIFO: after seeding with tracking on and n
\* updateHistory calls, the history is the last min(n+1, 10) entries of
\* everything recorded (the seed entry, then each recorded entry), in order.
C2_StrictFifo ==
    seed.mode = "on" =>
        /\ sessionTracker # Null
        /\ history = SubSeq(log, Len(log) - Min(Len(log), 10) + 1, Len(log))

\* two entries have been evicted, and the oldest kept differs from the ones dropped
C2_Witness ==
    /\ seed.mode = "on"
    /\ Len(log) = 12
    /\ history[1] = log[3]
    /\ log[3] # log[1]
    /\ log[3] # log[2]
    /\ history[10] = log[12]

\* C3: getSessionUsage(s) on a session seeded by initialize(s, true) with the
\* same snapshot returns 0 for subscription, toolCalls and search.
C3_ZeroAfterSeed ==
    (call.op = "getSessionUsage" /\ seed.mode = "on" /\ seed.data = call.data)
        => ret = ZeroUsage

\* getSessionUsage(s) right after initialize(s, true), for a snapshot whose
\* families have different ratios
C3_Witness ==
    /\ call.op = "getSessionUsage"
    /\ seed.mode = "on"
    /\ seed.data = call.data
    /\ Len(log) = 1
    /\ Ratio(call.data.freeToolCalls) # Ratio(call.data.search.hourly)
    /\ ret = ZeroUsage

\* round((current used/limit - used/limit at seeding) x 100), per family, from
\* the two snapshots
ExpectedSessionUsage(current, baseline) ==
    [subscription |->
         MathRound(RMul(RSub(Ratio(current.subscription), Ratio(baseline.subscription)),
                        Num(100))),
     toolCalls |->
         MathRound(RMul(RSub(Ratio(current.freeToolCalls), Ratio(baseline.freeToolCalls)),
                        Num(100))),
     search |->
         MathRound(RMul(RSub(Ratio(current.search.hourly), Ratio(baseline.search.hourly)),
                        Num(100)))]

\* AnalyticsEngine.getSessionUsage returns current minus baseline
C4_EngineSessionUsage ==
    (call.op = "getSessionUsage" /\ seed.mode = "on")
        => ret = ExpectedSessionUsage(call.data, seed.data)

\* the session usage the single-file QuotaMonitor shows is current minus baseline
C4_MonitorSessionUsage ==
    (statusBar.text = "quota" /\ legacy.sessionTracker # Null)
        => statusBar.sessionUsage =
               ExpectedSessionUsage(legacy.quotaData[1], legacy.seedData[1])

\* C4: for each quota family getSessionUsage(snapshot) returns
\* round((current used/limit - used/limit captured at seeding) x 100) as a
\* signed whole percent: baseline 500/1000 and current 600/1000 give
\* subscription = 10, and a drop in usage gives a negative value.
C4_SessionUsageIsCurrentMinusBaseline ==
    C4_EngineSessionUsage /\ C4_MonitorSessionUsage

\* C5: after initialize(snapshot, false) the SessionState is absent, whatever it
\* was before, and getSessionUsage returns all zeros for every snapshot until
\* the next initialize with tracking on.
C5_OffMeansAbsent ==
    seed.mode = "off" =>
        /\ sessionTracker = Null
        /\ call.op = "getSessionUsage" => ret = ZeroUsage

\* tracking was switched off over a session with recorded history, and session
\* usage was then asked for
C5_Witness ==
    /\ seed.mode = "off"
    /\ seed.cleared >= 2
    /\ call.op = "getSessionUsage"
    /\ call.data # seed.data
    /\ ret = ZeroUsage

\* C6: updateHistory called while no SessionState exists changes nothing: the
\* state stays absent and no history is created.
C6_UpdateWithoutSessionIsNoOp ==
    (call.op = "updateHistory" /\ call.priorLength = 0) => sessionTracker = Null

\* updateHistory has been called on an engine without a session
C6_Witness ==
    call.op = "updateHistory" /\ call.priorLength = 0 /\ sessionTracker = Null

\* C7: initialize(s, true) fully replaces the prior state: the result has the
\* baseline fractions of s for the three families and a history of exactly one
\* entry, the subscription fraction of s at the time of the call.
C7_SeedReplaces ==
    (call.op = "initialize" /\ call.trackSession) =>
        sessionTracker =
            Some([sessionStartTime |-> call.at,
                  initialSubscriptionQuota |-> Ratio(call.data.subscription),
                  initialToolCallsQuota |-> Ratio(call.data.freeToolCalls),
                  initialSearchQuota |-> Ratio(call.data.search.hourly),
                  history |-> <<[timestamp |-> call.at,
                                 subscriptionUsed |-> Ratio(call.data.subscription)]>>])

\* a session with a full history has been re-seeded
C7_Witness ==
    /\ call.op = "initialize"
    /\ call.trackSession
    /\ call.priorLength = 10
    /\ Len(history) = 1

\* C8: getAnalytics and getSessionUsage leave the SessionState unchanged:
\* sessionStartTime, the baselines and the history are the same after the call.
C8_ReadsDoNotMutate ==
    [][call'.op \in {"getAnalytics", "getSessionUsage"}
          => sessionTracker' = sessionTracker]_vars

\* getAnalytics has run on a session with at least 3 history entries
C8_Witness ==
    /\ call.op = "getAnalytics"
    /\ sessionTracker # Null
    /\ Len(history) >= 3
    /\ call.priorLength = Len(history)

\* the now a getAnalytics call was made for: the one supplied, else the clock
SuppliedNow == IF call.nowOverride # Null THEN call.nowOverride[1] ELSE call.at

\* max(0, resetsAt - now) / hour
ClaimedHoursUntilReset ==
    LET left == call.data.subscription.renewsAt - SuppliedNow
    IN  Rat(IF left > 0 THEN left ELSE 0, 3600000)

\* C9: whenever getAnalytics returns a non-null hoursUntilDepletion, it is
\* strictly positive and strictly less than hoursUntilReset.
C9_DepletionBeforeReset ==
    (call.op = "getAnalytics" /\ ret.hoursUntilDepletion # Null) =>
        /\ RLt(Zero, ret.hoursUntilDepletion)
        /\ RLt(ret.hoursUntilDepletion, ClaimedHoursUntilReset)

\* getAnalytics has predicted a depletion
C9_Witness == call.op = "getAnalytics" /\ ret.hoursUntilDepletion # Null

ClaimedUsedPercent == RMul(Ratio(call.data.subscription), Num(100))

\* C10, as claimed: whenever projectedUsageAtReset is present,
\* usedPercent <= projectedUsageAtReset <= 100, also for used > limit and for
\* a usedPercent that is not a whole number.
C10_ForecastWithinUsedAndHundred ==
    (call.op = "getAnalytics" /\ ret.projectedUsageAtReset # Null) =>
        /\ RLe(ClaimedUsedPercent, ret.projectedUsageAtReset)
        /\ RLe(ret.projectedUsageAtReset, Num(100))

\* C10, amended: whenever projectedUsageAtReset is present,
\* min(100, round(usedPercent)) <= projectedUsageAtReset <= 100.
C10_ForecastWithinRoundedUsedAndHundred ==
    (call.op = "getAnalytics" /\ ret.projectedUsageAtReset # Null) =>
        /\ RLe(RMin(Num(100), MathRound(ClaimedUsedPercent)), ret.projectedUsageAtReset)
        /\ RLe(ret.projectedUsageAtReset, Num(100))

\* a forecast was made for a snapshot with used above its limit
C10_Witness ==
    /\ call.op = "getAnalytics"
    /\ ret.projectedUsageAtReset # Null
    /\ RLt(Num(100), ClaimedUsedPercent)

\* the now a getAnalytics call computes with: nowOverride || Date.now() takes the
\* clock when the argument is omitted and also when it is 0
NowUsed ==
    IF call.nowOverride = Null \/ call.nowOverride[1] = 0
    THEN call.at
    ELSE call.nowOverride[1]

\* max(0, resetsAt - now) / hour, for the now the call computes with
HoursUntilResetUsed ==
    LET left == call.data.subscription.renewsAt - NowUsed
    IN  Rat(IF left > 0 THEN left ELSE 0, 3600000)

\* C11: projectedUsageAtReset is null exactly when hoursUntilReset <= 0, that
\* is when resetsAt <= now; for every snapshot whose reset lies strictly in the
\* future it is present, whatever the burn rate and the session state.
C11_ForecastAbsentIffResetPassed ==
    call.op = "getAnalytics" =>
        (ret.projectedUsageAtReset = Null <=> call.data.subscription.renewsAt <= NowUsed)

\* getAnalytics was asked at the very instant of the reset, with a session that
\* has history, and made no forecast
C11_Witness ==
    /\ call.op = "getAnalytics"
    /\ call.data.subscription.renewsAt = NowUsed
    /\ call.priorLength >= 2
    /\ ret.projectedUsageAtReset = Null

\* (newest.used - third-newest.used) x 100, over everything recorded this session
RecentDelta ==
    RMul(RSub(log[Len(log)].subscriptionUsed, log[Len(log) - 2].subscriptionUsed), Num(100))

\* newest.timestamp - oldest.timestamp, in hours
LogSpanHours == Rat(log[Len(log)].timestamp - log[1].timestamp, 3600000)

C13_TrendFromLastThreePoints ==
    /\ (call.op = "getAnalytics" /\ Len(log) >= 3 /\ RLt(Rat(1, 20), LogSpanHours)) =>
           ret.trend = IF RLt(Rat(1, 10), RecentDelta) THEN "up"
                       ELSE IF RLt(RecentDelta, Rat(-1, 10)) THEN "down"
                       ELSE "stable"
    /\ (call.op = "getAnalytics" /\ log = TestHistory) => ret.trend = "up"

\* a session of 4 points that dropped by 0.2 percentage points between its
\* first and second point and has been level since was read as stable
C13_Witness ==
    /\ call.op = "getAnalytics"
    /\ Len(log) = 4
    /\ RLt(Rat(1, 20), LogSpanHours)
    /\ RSub(log[1].subscriptionUsed, log[2].subscriptionUsed) = Rat(2, 1000)
    /\ RecentDelta = Zero
    /\ ret.trend = "stable"

\* the trend test's history was read as up
C13_TestWitness == call.op = "getAnalytics" /\ log = TestHistory /\ ret.trend = "up"

\* max(0, 5 - hoursUntilReset)
ClaimedHoursElapsedInCycle == RMax(Zero, RSub(Num(5), HoursUntilResetUsed))

\* usedPercent / hoursElapsedInCycle, and 0 when hoursElapsedInCycle <= 0.1
ClaimedGlobalRate ==
    IF RLt(Rat(1, 10), ClaimedHoursElapsedInCycle)
    THEN RDiv(ClaimedUsedPercent, ClaimedHoursElapsedInCycle)
    ELSE Zero

\* last.timestamp - first.timestamp of the history, in hours
HistorySpanHours ==
    Rat(history[Len(history)].timestamp - history[1].timestamp, 3600000)

\* the history has >= 2 points and spans more than 0.05 h
SessionReliable ==
    /\ sessionTracker # Null
    /\ Len(history) >= 2
    /\ RLt(Rat(1, 20), HistorySpanHours)

\* max(0, (last.used - first.used) x 100 / sessionHours), for a reliable session
ClaimedSessionRate ==
    RMax(Zero,
         RDiv(RMul(RSub(history[Len(history)].subscriptionUsed, history[1].subscriptionUsed),
                   Num(100)),
              HistorySpanHours))

\* C14: when the reset is in the future, projectedUsageAtReset =
\* round(usedPercent + burnRatePerHour x hoursUntilReset) capped at 100; with
\* no reliable session rate the rate is the global rate usedPercent /
\* hoursElapsedInCycle (0 when hoursElapsedInCycle <= 0.1, hoursElapsedInCycle
\* = max(0, 5 - hoursUntilReset)), so 50% used 4 h into the 5 h cycle with 1 h
\* to reset gives rate 12.5 and forecast 63.
C14_ForecastIsRoundedAndCapped ==
    (call.op = "getAnalytics" /\ call.data.subscription.renewsAt > NowUsed) =>
        /\ ret.projectedUsageAtReset =
               RMin(Num(100),
                    MathRound(RAdd(ClaimedUsedPercent,
                                   RMul(ret.burnRatePerHour, HoursUntilResetUsed))))
        /\ ~SessionReliable => ret.burnRatePerHour = ClaimedGlobalRate
        /\ (/\ ~SessionReliable
            /\ ClaimedUsedPercent = Num(50)
            /\ HoursUntilResetUsed = Num(1)) =>
               /\ ret.burnRatePerHour = Rat(125, 10)
               /\ ret.projectedUsageAtReset = Num(63)

\* 50% used, 4 h into the cycle, 1 h to the reset, no reliable session rate:
\* the rate is 12.5 and the forecast 63
C14_Witness ==
    /\ call.op = "getAnalytics"
    /\ call.nowOverride = Some(4 * 3600000)
    /\ ClaimedUsedPercent = Num(50)
    /\ HoursUntilResetUsed = Num(1)
    /\ ~SessionReliable
    /\ ret.burnRatePerHour = Rat(125, 10)
    /\ ret.projectedUsageAtReset = Num(63)

C15_BoundaryWitness ==
    /\ call.op = "getAnalytics"
    /\ sessionTracker # Null
    /\ Len(history) >= 2
    /\ HistorySpanHours = Rat(1, 20)
    /\ history[Len(history)].subscriptionUsed # history[1].subscriptionUsed
    /\ RLt(Zero, ClaimedGlobalRate)
    /\ ret.burnRatePerHour = ClaimedGlobalRate

ClaimedRemainingPercent == RSub(Num(100), ClaimedUsedPercent)

\* burnRatePerHour > 1, remainingPercent > 0, hoursUntilReset > 0 and
\* remainingPercent / burnRatePerHour < hoursUntilReset
DepletionExpected ==
    /\ RLt(Num(1), ret.burnRatePerHour)
    /\ RLt(Zero, ClaimedRemainingPercent)
    /\ RLt(Zero, HoursUntilResetUsed)
    /\ RLt(RDiv(ClaimedRemainingPercent, ret.burnRatePerHour), HoursUntilResetUsed)

\* C16: hoursUntilDepletion is present if and only if burnRatePerHour > 1 and
\* remainingPercent > 0 and hoursUntilReset > 0 and remainingPercent /
\* burnRatePerHour < hoursUntilReset, and when present it equals
\* remainingPercent / burnRatePerHour; in all other cases it is null.
C16_DepletionIffBeforeReset ==
    call.op = "getAnalytics" =>
        ret.hoursUntilDepletion =
            IF DepletionExpected
            THEN RDiv(ClaimedRemainingPercent, ret.burnRatePerHour)
            ELSE Null

\* a depletion was predicted, and it is remainingPercent / burnRatePerHour
C16_Witness ==
    /\ call.op = "getAnalytics"
    /\ DepletionExpected
    /\ ret.hoursUntilDepletion = RDiv(ClaimedRemainingPercent, ret.burnRatePerHour)

\* usage is above the limit and the rate above 1 before the reset: no depletion
\* is predicted
C16_OverLimitWitness ==
    /\ call.op = "getAnalytics"
    /\ RLt(Num(1), ret.burnRatePerHour)
    /\ RLt(ClaimedRemainingPercent, Zero)
    /\ RLt(Zero, HoursUntilResetUsed)
    /\ ret.hoursUntilDepletion = Null

\* the wall-clock times a call can be made at
WallClocks == {StartTime + k * TickMs : k \in 0..MaxTicks}

\* the last call was getAnalytics with now supplied, and made at any wall clock
\* it returns what it returned
SameAtEveryWallClock ==
    \A wall \in WallClocks :
        getAnalytics(sessionTracker, call.data, call.nowOverride, wall) = ret

\* C17: getAnalytics is deterministic in (SessionState, snapshot, now): for
\* every explicitly supplied now, the epoch value 0 included, two calls with the
\* same state, snapshot and now return identical analytics regardless of the
\* wall clock at the time of the call.
C17_DeterministicInSuppliedNow ==
    (call.op = "getAnalytics" /\ call.nowOverride # Null) => SameAtEveryWallClock

\* the same for every supplied now other than 0
C17_DeterministicInNonZeroNow ==
    (call.op = "getAnalytics" /\ call.nowOverride # Null /\ call.nowOverride[1] # 0)
        => SameAtEveryWallClock

\* getAnalytics was called with now = 0 after the clock had advanced, and at
\* the wall clock of the start of the run the same call returns something else
C17_EpochWitness ==
    /\ call.op = "getAnalytics"
    /\ call.nowOverride = Some(0)
    /\ call.at > StartTime
    /\ getAnalytics(sessionTracker, call.data, call.nowOverride, StartTime) # ret

\* a number, or null
FiniteOrNull(x) == x = Null \/ IsFinite(x)

\* C18: for every snapshot with positive limits and every reachable
\* SessionState, every division getAnalytics performs has a strictly positive
\* divisor (limit, hoursElapsedInCycle > 0.1, sessionHoursElapsed > 0.05,
\* burnRatePerHour > 1), so each rate and estimate is a finite number or null.
C18_DivisorsPositiveResultsFinite ==
    call.op = "getAnalytics" =>
        /\ \A divisor \in getAnalyticsDivisors(sessionTracker, call.data,
                                                call.nowOverride, call.at) :
               RLt(Zero, divisor)
        /\ IsFinite(ret.burnRatePerHour)
        /\ FiniteOrNull(ret.hoursUntilDepletion)
        /\ FiniteOrNull(ret.projectedUsageAtReset)
        /\ \A i \in 1..Len(ret.sessionHistory) : IsFinite(ret.sessionHistory[i].usage)

\* a call for which all three guarded quantities are 0: no hour of the cycle
\* has elapsed, the history has two entries of the same instant, the rate is 0
C18_Witness ==
    /\ call.op = "getAnalytics"
    /\ ClaimedHoursElapsedInCycle = Zero
    /\ sessionTracker # Null
    /\ Len(history) >= 2
    /\ HistorySpanHours = Zero
    /\ ret.burnRatePerHour = Zero
    /\ ret.hoursUntilDepletion = Null
    /\ ret.projectedUsageAtReset # Null

\* a call that performs all three guarded divisions
C18_AllDivisionsWitness ==
    /\ call.op = "getAnalytics"
    /\ RLt(Rat(1, 10), ClaimedHoursElapsedInCycle)
    /\ SessionReliable
    /\ ret.hoursUntilDepletion # Null

\* C19: when session tracking is switched off (trackSessionUsage set to false)
\* while a SessionState exists, the SessionState becomes absent, so that
\* afterwards getSessionUsage reports all zeros and no history is kept.
C19_TrackingOffMeansNoSession ==
    ~monitor.config.trackSession =>
        /\ monitor.sessionTracker = Null
        /\ monitor.shown.text = "quota" => monitor.shown.sessionUsage = ZeroUsage

\* the same of the single-file QuotaMonitor
C19_LegacyTrackingOffMeansNoSession ==
    ~settings.trackSessionUsage => legacy.sessionTracker = Null

\* tracking is off, yet the session has gone on recording and its usage is shown
C19_StillTrackingWitness ==
    /\ ~monitor.config.trackSession
    /\ monitor.sessionTracker # Null
    /\ Len(monitor.sessionTracker[1].history) >= 2
    /\ monitor.shown.text = "quota"
    /\ monitor.shown.sessionUsage.subscription = Num(10)

\* C20: for every configured refreshInterval value, the period of the
\* auto-refresh timer is between 60 and 3600 seconds inclusive.
C20_TimerPeriodWithinRange ==
    monitor.refreshTimer # Null =>
        /\ 60 * 1000 <= monitor.refreshTimer[1]
        /\ monitor.refreshTimer[1] <= 3600 * 1000

\* the period of the modular QuotaMonitor's timer is at least 60 seconds
C20_TimerPeriodAtLeastSixty ==
    monitor.refreshTimer # Null => 60 * 1000 <= monitor.refreshTimer[1]

\* the period the single-file QuotaMonitor computes is within 60 to 3600 seconds
C20_LegacyPeriodWithinRange ==
    \A seconds \in RefreshIntervals :
        /\ 60 * 1000 <= getRefreshInterval(seconds)
        /\ getRefreshInterval(seconds) <= 3600 * 1000

\* the timer runs with a period of two hours
C20_TwoHourWitness == monitor.refreshTimer = Some(7200 * 1000)

\* C21: across any sequence of snapshots and configuration changes, the
\* low-quota warning is shown at most once per threshold crossing: once shown
\* it is not shown again until remaining quota has risen above the threshold;
\* likewise the depleted warning is not repeated until remaining quota has
\* been above 0.
C21_WarningsOncePerCrossing == ~legacy.lowRepeated /\ ~legacy.zeroRepeated

\* the depleted warning is never repeated while quota has not been above 0
C21_DepletedOncePerCrossing == ~legacy.zeroRepeated

\* the low-quota warning is never repeated while the threshold has not been
\* changed and quota has not been above it
C21_LowOncePerCrossingSinceChange == ~legacy.lowRepeatedSinceChange

\* the low-quota warning was shown for the second time while remaining quota
\* had stayed at 40%, below both thresholds set
C21_RepeatWitness ==
    /\ legacy.lowRepeated
    /\ legacy.warningShown = "low"
    /\ settings.lowQuotaNotificationThreshold = 45
    /\ legacy.quotaData = Some(DataSixty)

\* a depleted warning is outstanding and a further depleted snapshot arrived
\* without a warning
C21_DepletedWitness ==
    /\ legacy.zeroOutstanding
    /\ legacy.zeroQuotaNotified
    /\ legacy.warningShown = "none"
    /\ legacy.fetches >= 2
    /\ ~legacy.isFetching
    /\ legacy.quotaData = Some(DataOver)

(***************************************************************************)
(* C22: retries after a rate-limited fetch                                 *)
(***************************************************************************)

\* C22: after a fetch fails with HTTP 429 the extension retries
\* automatically, and the delay between successive retries grows: of the
\* retries made while the fetches keep failing with 429, each comes after a
\* longer delay than the one before.
C22_RetryDelaysGrow ==
    \A i \in 1..(Len(monitor.retryDelays) - 1) :
        monitor.retryDelays[i + 1] > monitor.retryDelays[i]

\* the only retry after a 429 is the next tick of the auto-refresh timer: a
\* retry is delayed by the timer's period, whatever the failures before it
C22_RetryDelayIsTimerPeriod ==
    \A i \in 1..Len(monitor.retryDelays) :
        \E seconds \in RefreshIntervals \cup {300} :
            monitor.retryDelays[i] = Max(60000, seconds * 1000)

\* two retries in a row were made after 429 answers, both after 300 s
C22_SameDelayWitness ==
    /\ monitor.retryDelays = <<300000, 300000>>
    /\ monitor.fetchError = Some(RateLimited)
    /\ monitor.isFetching

(***************************************************************************)
(* C23: one fetch in flight                                                *)
(***************************************************************************)

\* the steps in which refreshQuota() is called: the refresh command, a timer
\* tick, the webview's refresh message, showDetails without data, initialize()
RefreshQuotaCalled ==
    monitor'.lastStep \in {"refreshQuota", "showDetails", "apiKeyChanged"}

\* C23: at most one quota fetch is in flight per QuotaMonitor at any time,
\* and a refreshQuota call that arrives while isFetching is true starts no
\* fetch and calls neither updateHistory nor initializeSession, whichever of
\* timer tick, refresh command, webview message or configuration change
\* made the call.
C23_OneFetchInFlight ==
    [][/\ monitor'.inFlight <= 1
       /\ (monitor.isFetching /\ RefreshQuotaCalled) =>
              /\ monitor'.inFlight = monitor.inFlight
              /\ monitor'.isFetching
              /\ monitor'.sessionTracker = monitor.sessionTracker
              /\ monitor'.currentData = monitor.currentData
              /\ monitor'.initializeCalls = monitor.initializeCalls
              /\ monitor'.successfulFetches = monitor.successfulFetches]_vars

\* isFetching is true exactly while a fetch is in flight
C23_FetchingIffInFlight ==
    /\ monitor.inFlight \in {0, 1}
    /\ monitor.isFetching <=> monitor.inFlight = 1

\* two refreshQuota calls arrived while the fetch that initialize() began was
\* still in flight, and still only that fetch is in flight
C23_Witness ==
    /\ monitor.lastStep = "refreshQuota"
    /\ monitor.fetches = 2
    /\ monitor.isFetching
    /\ monitor.inFlight = 1
    /\ monitor.initializePending
    /\ monitor.fetchError = Null
    /\ monitor.successfulFetches = 0

(***************************************************************************)
(* C24: the session is seeded once                                         *)
(***************************************************************************)

\* C24: initializeSession is called at most once in a QuotaMonitor's
\* lifetime: only in the step in which the first fetch returns data, while
\* currentData is still null, and in no later fetch, failed fetch, API-key
\* change or other configuration change.
C24_SeededOnlyOnFirstSuccess ==
    [][monitor'.initializeCalls # monitor.initializeCalls =>
           /\ monitor'.lastStep = "fetchResolved"
           /\ monitor.currentData = Null
           /\ monitor.successfulFetches = 0
           /\ monitor.initializeCalls = 0
           /\ monitor'.initializeCalls = 1]_vars

\* initializeSession has been called once if data ever arrived, else never
C24_SeededIffDataArrived ==
    monitor.initializeCalls = IF monitor.successfulFetches > 0 THEN 1 ELSE 0

\* data arrived a second time, after an API-key change and a further
\* configuration change, and initializeSession had been called once
C24_Witness ==
    /\ monitor.successfulFetches = 2
    /\ monitor.initializeCalls = 1
    /\ monitor.configChanges = 2
    /\ monitor.lastStep = "fetchResolved"

(***************************************************************************)
(* C25: the snapshot is recorded before it is analysed                     *)
(***************************************************************************)

\* the newest history entry holds the used/limit fraction of currentData
NewestEntryIsCurrentData ==
    /\ monitor.sessionTracker # Null
    /\ LET entries == monitor.sessionTracker[1].history
       IN  /\ Len(entries) >= 1
           /\ entries[Len(entries)].subscriptionUsed =
                  UsedFraction(monitor.currentData[1].subscription)

\* C25: whenever the host holds data and session tracking is enabled, the
\* snapshot it passes to getAnalytics has been recorded: the newest history
\* entry holds the subscription used/limit fraction of currentData.
C25_SnapshotRecordedWhenTracking ==
    (monitor.currentData # Null /\ monitor.config.trackSession) =>
        NewestEntryIsCurrentData

\* whenever a SessionState exists, its newest entry is that of currentData,
\* and the history holds the seed entry of the first fetch and one entry for
\* every later fetch that returned data
C25_SnapshotRecordedWhenSessionExists ==
    monitor.sessionTracker # Null =>
        /\ monitor.currentData # Null
        /\ NewestEntryIsCurrentData
        /\ Len(monitor.sessionTracker[1].history) =
               Min(monitor.successfulFetches, MaxHistoryLength)

\* a second snapshot, different from the first, was recorded and shown
C25_AppendedWitness ==
    /\ monitor.sessionTracker # Null
    /\ Len(monitor.sessionTracker[1].history) = 2
    /\ monitor.sessionTracker[1].history[1].subscriptionUsed #
           monitor.sessionTracker[1].history[2].subscriptionUsed
    /\ monitor.currentData = Some(DataSixty)
    /\ monitor.shown.text = "quota"
    /\ monitor.lastStep = "fetchResolved"

\* tracking was switched on after the first data had arrived without it:
\* data is held, tracking is enabled, and there is no session
C25_NoSessionWitness ==
    /\ monitor.config.trackSession
    /\ monitor.currentData # Null
    /\ monitor.sessionTracker = Null
    /\ monitor.successfulFetches = 2

(***************************************************************************)
(* C26: a predicted depletion comes with a forecast of full usage          *)
(***************************************************************************)

\* C26: whenever getAnalytics returns a non-null hoursUntilDepletion, the
\* same result has projectedUsageAtReset = 100.
C26_DepletionMeansFullForecast ==
    (call.op = "getAnalytics" /\ ret.hoursUntilDepletion # Null) =>
        ret.projectedUsageAtReset = Num(100)

\* a depletion was predicted for a snapshot below its limit, the usage
\* forecast for the rest of the cycle alone is below 100, and the forecast
\* returned is 100
C26_Witness ==
    /\ call.op = "getAnalytics"
    /\ ret.hoursUntilDepletion # Null
    /\ RLt(ClaimedUsedPercent, Num(100))
    /\ RLt(RMul(ret.burnRatePerHour, HoursUntilResetUsed), Num(99))
    /\ ret.projectedUsageAtReset = Num(100)

(***************************************************************************)
(* C27: the burn rate is never negative                                    *)
(***************************************************************************)

\* C27: for every snapshot with used >= 0 and limit > 0 and every reachable
\* SessionState, the burnRatePerHour that getAnalytics returns is not
\* negative, also when usage dropped during the session.
C27_BurnRateNotNegative ==
    (/\ call.op = "getAnalytics"
     /\ call.data.subscription.requests >= 0
     /\ call.data.subscription.limit > 0) =>
        RLe(Zero, ret.burnRatePerHour)

\* a reliable session in which usage dropped was read: the session rate
\* counts as 0 and the rate returned is 0.7 times the global rate, above 0
C27_Witness ==
    /\ call.op = "getAnalytics"
    /\ SessionReliable
    /\ RLt(history[Len(history)].subscriptionUsed, history[1].subscriptionUsed)
    /\ ClaimedSessionRate = Zero
    /\ RLt(Zero, ret.burnRatePerHour)
    /\ ret.burnRatePerHour = RMul(Rat(7, 10), ClaimedGlobalRate)

(***************************************************************************)
(* C28: a failed fetch leaves the analytics state alone                    *)
(***************************************************************************)

\* the step is the end of a refreshQuota call whose fetch failed, or a
\* refreshQuota call made while no client is set
FetchFailed ==
    \/ monitor'.lastStep = "fetchRejected"
    \/ /\ monitor'.lastStep \in {"refreshQuota", "showDetails"}
       /\ ~monitor.hasClient
       /\ monitor.currentData = Null \/ monitor'.lastStep = "refreshQuota"

\* C28: a failed fetch changes no analytics state: when the fetch rejects or
\* no client is set, the history, the session baseline and currentData are as
\* before; fetchError is set and the status bar shows the error.
C28_FailedFetchKeepsState ==
    [][FetchFailed =>
           /\ monitor'.sessionTracker = monitor.sessionTracker
           /\ monitor'.currentData = monitor.currentData
           /\ monitor'.initializeCalls = monitor.initializeCalls
           /\ monitor'.successfulFetches = monitor.successfulFetches
           /\ monitor'.config = monitor.config
           /\ monitor'.fetchError # Null
           /\ monitor'.shown.text = "error"
           /\ ~monitor'.isFetching]_vars

\* a fetch timed out while data and a session of two entries were held, and
\* both are still held
C28_Witness ==
    /\ monitor.lastStep = "fetchRejected"
    /\ monitor.fetchError = Some(RequestTimeout)
    /\ monitor.currentData = Some(DataSixty)
    /\ monitor.sessionTracker # Null
    /\ Len(monitor.sessionTracker[1].history) = 2
    /\ monitor.shown.text = "error"

\* refreshQuota was called while no client was set: the error is shown and
\* no fetch was started
C28_NoClientWitness ==
    /\ monitor.lastStep = "refreshQuota"
    /\ ~monitor.hasClient
    /\ monitor.fetchError = Some("API Key not set")
    /\ monitor.inFlight = 0
    /\ monitor.currentData = Null

(***************************************************************************)
(* C29: isFetching is reset when the fetch settles                         *)
(***************************************************************************)

\* C29: every refreshQuota call that sets isFetching to true sets it back
\* to false once its fetch settles, whether the fetch succeeds, is rejected
\* or times out: whenever isFetching is true it is false again later, so
\* later refreshes are not blocked forever.
C29_FetchingEnds == monitor.isFetching ~> ~monitor.isFetching

\* the same in the single-file monitor
C29_LegacyFetchingEnds == legacy.isFetching ~> ~legacy.isFetching

\* isFetching is true only while the request of the call that set it is in
\* flight, so the settling of that request finds the flag to reset
C29_FetchingOnlyWhileInFlight == monitor.isFetching => monitor.inFlight = 1

\* a fetch timed out before any data had arrived, isFetching is false again
\* and no request is in flight
C29_Witness ==
    /\ monitor.lastStep = "fetchRejected"
    /\ monitor.fetchError = Some(RequestTimeout)
    /\ ~monitor.isFetching
    /\ monitor.inFlight = 0
    /\ monitor.currentData = Null
    /\ monitor.hasClient

(***************************************************************************)
(* C30: the auto-refresh timer and dispose()                               *)
(***************************************************************************)

\* C30: at most one auto-refresh timer is active at any time, and after
\* dispose() no refresh timer is active and none is created, however
\* dispose interleaves with a pending initialize(), a refreshQuota in flight
\* and configuration changes.
C30_OneTimerNoneAfterDispose ==
    /\ monitor.activeTimers <= 1
    /\ monitor.disposed => monitor.activeTimers = 0

\* at most one auto-refresh timer is active at any time, and it is the one
\* the refreshTimer handle names
C30_AtMostOneTimer ==
    /\ monitor.activeTimers \in {0, 1}
    /\ monitor.activeTimers = 1 <=> monitor.refreshTimerLive
    /\ monitor.refreshTimerLive => monitor.refreshTimer # Null

\* the dispose() step itself leaves no timer active
C30_DisposeClearsTimer ==
    [][monitor'.lastStep = "dispose" => monitor'.activeTimers = 0]_vars

\* dispose() was called while initialize() waited for its fetch; the fetch
\* settled and initialize() went on to start a timer
C30_TimerAfterDisposeWitness ==
    /\ monitor.disposed
    /\ monitor.activeTimers = 1
    /\ monitor.lastStep \in {"fetchResolved", "fetchRejected"}
    /\ ~monitor.initializePending

\* a running timer was replaced after a change of refreshInterval and one
\* timer is active
C30_ReplacedWitness ==
    /\ monitor.lastStep = "refreshIntervalChanged"
    /\ monitor.configChanges = 3
    /\ monitor.activeTimers = 1
    /\ monitor.refreshTimer = Some(3600 * 1000)
    /\ ~monitor.disposed

====
